---- MODULE Spec2Model ----
(***************************************************************************)
(* State-machine model of the TwoVarGraph component                        *)
(* (src/src/components/TwoVarGraph.jsx): the drag gesture handlers         *)
(* (startDrawing / moveDrawing / endDrawing), the action history with its  *)
(* cursor (pushHistory, Undo, Redo, Reset) and the fold of the history     *)
(* into the visible state (reduceHistoryToState).                          *)
(*                                                                         *)
(* Numbers.  Pixel coordinates are integers.  A plot value (the result of  *)
(* xToValue / yToValue) is a real number; every value the handlers compute *)
(* is a pixel or a midpoint of two pixels mapped through the affine map,   *)
(* so it is a multiple of 1/(2*scaleX).  A value v is therefore carried    *)
(* exactly as the integer numerator v * Den, Den = 2 * scaleX.             *)
(***************************************************************************)
EXTENDS Integers, Sequences, FiniteSets

----------------------------------------------------------------------------
(* Constants of the module (TwoVarGraph.jsx lines 3-40).                   *)

WIDTH == 500
HEIGHT == 500
MIN == -10
MAX == 10
PADDING == 40
centerX == WIDTH \div 2
centerY == HEIGHT \div 2
plotWidth == WIDTH - 2 * PADDING
plotHeight == HEIGHT - 2 * PADDING
scaleX == plotWidth \div (MAX - MIN)
scaleY == plotHeight \div (MAX - MIN)

\* Denominator of the fixed-point representation of plot values.
Den == 2 * scaleX

\* POINT_MAX_SPAN = scaleX * 0.9 pixels, carried in tenths of a pixel.
POINT_MAX_SPAN_x10 == scaleX * 9
POINT_MIN_VERTICAL == 12

ACTION_SEGMENT == "segment"
ACTION_EMPTY_CIRCLE == "emptyCircle"

\* selectedShape is 'line' | 'exponential' | 'parabola' | null; null is "none".
Shapes == {"line", "exponential", "parabola"}
NoShape == "none"

----------------------------------------------------------------------------
(* Bounds of the model.                                                    *)

\* Longest history explored: a commit is taken only while the cursor is below it.
MaxHistory == 3

\* Largest numerator of a plot value given to roundToTick under PureSpec:
\* the values are n / Den for n in -MaxNumer..MaxNumer, that is [-12, 12].
MaxNumer == 504

\* Largest coordinate of a parabola vertex or arm end under PureSpec.
MaxCoord == 4

\* Pointer positions (client coordinates relative to the container) fed to
\* the handlers.  StartPixels are pointer-down positions, MovePixels are
\* pointer-move positions.  From (250,240):
\*   to (250,258)  span (0,18): short and vertical, both ends in grid cell (0,0)
\*   to (250,222)  span (0,18): short and vertical, centre in grid cell (0,1)
\*   to (255,260)  span (5,20): both ends in grid cell (0,0)
\*   to (255,220)  span (5,20): ends in grid cells (0,0) and (0,1)
\*   to (250,240)  back on the pointer-down pixel: span (0,0)
StartPixels == { <<250, 240>> }
MovePixels == { <<250, 240>>, <<250, 258>>, <<250, 222>>, <<255, 260>>, <<255, 220>> }

----------------------------------------------------------------------------
(* Pure helpers.                                                           *)

Max2(a, b) == IF a >= b THEN a ELSE b
Min2(a, b) == IF a <= b THEN a ELSE b
Abs(a) == IF a >= 0 THEN a ELSE -a

\* valueToX / valueToY: grid value (an integer) to pixel.
valueToX(x) == centerX + x * scaleX
valueToY(y) == centerY - y * scaleY

\* yToValue without the inversion of the Y axis.
yToValueNotInverted(py2) == py2 - 2 * centerY

\* xToValue / yToValue on a pixel coordinate given in half pixels (px2 = 2*px):
\* the result is the numerator of the value over Den.
\*   (px2/2 - centerX) / scaleX = (px2 - 2*centerX) / Den
xToValue(px2) == px2 - 2 * centerX
yToValue(py2) == 2 * centerY - py2

\* clamp on a value numerator.
clamp(n) == Max2(MIN * Den, Min2(MAX * Den, n))

\* Math.floor in the place of Math.round.
MathFloor(n) == n \div Den

\* Math.round on a value numerator n (value n/Den): floor(n/Den + 1/2).
\* Math.round(-0.5) is -0, printed and compared as 0.
MathRound(n) == (2 * n + Den) \div (2 * Den)

\* roundToTick without the clamp.
roundToTickNoClamp(n) == MathRound(n)

\* roundToTick: clamp, then round to the nearest integer.
roundToTick(n) == MathRound(clamp(n))

\* clientToSvg with the container at the origin: clamp into the surface.
clientToSvg(c) == [x |-> Max2(0, Min2(WIDTH, c[1])), y |-> Max2(0, Min2(HEIGHT, c[2]))]

----------------------------------------------------------------------------
(* History: pushHistory, the Undo / Redo updaters, the derived state.      *)

\* pushHistory appending to the whole history instead of the cut one.
pushHistoryNoTruncate(h, idx, action) ==
    [history |-> Append(h, action), historyIndex |-> idx + 1]

\* pushHistory moving the cursor past the old end instead of past the cut.
pushHistoryIndexFromLength(h, idx, action) ==
    [history |-> SubSeq(h, 1, idx) \o <<action>>, historyIndex |-> Len(h) + 1]

\* pushHistory (lines 128-132): idx is historyIndexRef.current, which every
\* render sets to historyIndex; the history is cut at idx before the append.
pushHistory(h, idx, action) ==
    [history |-> SubSeq(h, 1, idx) \o <<action>>, historyIndex |-> idx + 1]

\* The Undo updater stepping back two actions.
UndoIndexSkipsOne(i) == Max2(0, i - 2)

\* Undo onClick updater (line 419): Math.max(0, i - 1).
UndoIndex(i) == Max2(0, i - 1)

\* The Redo updater bounded by the last index instead of the length.
RedoIndexOffByOne(len, i) == Min2(len - 1, i + 1)

\* Redo onClick updater (line 427): Math.min(history.length, i + 1).
RedoIndex(len, i) == Min2(len, i + 1)

\* history.slice(0, historyIndex)
HistorySlice(h, i) == SubSeq(h, 1, Min2(i, Len(h)))

\* The marker key `${x},${y}` of reduceHistoryToState, as the pair it prints.
PointKey(p) == <<p.x, p.y>>

\* The loop step without the test for an existing marker.
ReduceStepNoDedup(st, action) ==
    IF action.type = ACTION_SEGMENT
    THEN [st EXCEPT !.segments =
            Append(@, [shape  |-> IF action.data.shape = NoShape
                                  THEN "line" ELSE action.data.shape,
                       points |-> action.data.points])]
    ELSE [st EXCEPT !.emptyCirclePoints = Append(@, action.point)]

\* The loop step dropping a segment equal to one already listed.
ReduceStepDedupSegments(st, action) ==
    IF action.type = ACTION_SEGMENT
    THEN IF \E k \in 1..Len(st.segments) : st.segments[k] = action.data
         THEN st
         ELSE [st EXCEPT !.segments = Append(@, action.data)]
    ELSE IF \E k \in 1..Len(st.emptyCirclePoints) :
                PointKey(st.emptyCirclePoints[k]) = PointKey(action.point)
         THEN st
         ELSE [st EXCEPT !.emptyCirclePoints = Append(@, action.point)]

\* One step of the loop of reduceHistoryToState (lines 78-92).
ReduceStep(st, action) ==
    IF action.type = ACTION_SEGMENT
    THEN [st EXCEPT !.segments =
            Append(@, [shape  |-> IF action.data.shape = NoShape
                                  THEN "line" ELSE action.data.shape,
                       points |-> action.data.points])]
    ELSE IF action.type = ACTION_EMPTY_CIRCLE
    THEN IF \E k \in 1..Len(st.emptyCirclePoints) :
                PointKey(st.emptyCirclePoints[k]) = PointKey(action.point)
         THEN st
         ELSE [st EXCEPT !.emptyCirclePoints = Append(@, action.point)]
    ELSE st

RECURSIVE reduceHistoryToState(_)
\* reduceHistoryToState (lines 75-94): left fold of the slice.
reduceHistoryToState(historySlice) ==
    IF historySlice = <<>>
    THEN [segments |-> <<>>, emptyCirclePoints |-> <<>>]
    ELSE ReduceStep(reduceHistoryToState(SubSeq(historySlice, 1, Len(historySlice) - 1)),
                    historySlice[Len(historySlice)])

----------------------------------------------------------------------------
(* Gesture classification: the updater of endDrawing (lines 176-214).      *)

\* The point test on spanX in the place of segmentLength.
IsPointGestureBySpanX(prev) ==
    LET spanX == Max2(prev[1].x, prev[2].x) - Min2(prev[1].x, prev[2].x)
        spanY == Max2(prev[1].y, prev[2].y) - Min2(prev[1].y, prev[2].y)
    IN  /\ 10 * spanX < POINT_MAX_SPAN_x10
        /\ spanY >= POINT_MIN_VERTICAL

\* The point test without the vertical condition.
IsPointGestureNoVertical(prev) ==
    LET dx == prev[2].x - prev[1].x
        dy == prev[2].y - prev[1].y
    IN  100 * (dx * dx + dy * dy) < POINT_MAX_SPAN_x10 * POINT_MAX_SPAN_x10

\* segmentLength < POINT_MAX_SPAN && spanY >= POINT_MIN_VERTICAL.
\* Math.hypot(dx, dy) < POINT_MAX_SPAN is compared on the squares, in
\* hundredths: 100 * (dx^2 + dy^2) < (10 * POINT_MAX_SPAN)^2.
IsPointGesture(prev) ==
    LET dx == prev[2].x - prev[1].x
        dy == prev[2].y - prev[1].y
        spanY == Max2(prev[1].y, prev[2].y) - Min2(prev[1].y, prev[2].y)
    IN  /\ 100 * (dx * dx + dy * dy) < POINT_MAX_SPAN_x10 * POINT_MAX_SPAN_x10
        /\ spanY >= POINT_MIN_VERTICAL

\* The empty circle of lines 191-195: snapped centre of the two points.
EmptyCircleAction(prev) ==
    LET cx2 == prev[1].x + prev[2].x      \* 2 * cx
        cy2 == prev[1].y + prev[2].y      \* 2 * cy
    IN  [type  |-> ACTION_EMPTY_CIRCLE,
         point |-> [x |-> roundToTick(xToValue(cx2)),
                    y |-> roundToTick(yToValue(cy2))]]

\* The ends of the drag taken as they are, without snapping.
SnapPixelRaw(pt) == pt

\* startPt / endPt of lines 200-209: each end snapped to the grid and mapped
\* back to pixels.
SnapPixel(pt) == [x |-> valueToX(roundToTick(xToValue(2 * pt.x))),
                  y |-> valueToY(roundToTick(yToValue(2 * pt.y)))]

\* The segment carrying selectedShape as it is, without the || 'line'.
SegmentActionNoDefault(prev, shape) ==
    [type |-> ACTION_SEGMENT,
     data |-> [shape  |-> shape,
               points |-> <<SnapPixel(prev[1]), SnapPixel(prev[2])>>]]

\* The segment of lines 211-212.
SegmentAction(prev, shape) ==
    [type |-> ACTION_SEGMENT,
     data |-> [shape  |-> IF shape = NoShape THEN "line" ELSE shape,
               points |-> <<SnapPixel(prev[1]), SnapPixel(prev[2])>>]]

\* The updater without the test for coincident snapped ends (line 210).
EndResultNoCoincidence(prev, shape) ==
    IF Len(prev) < 2
    THEN [push |-> FALSE, path |-> prev]
    ELSE IF IsPointGesture(prev)
    THEN [push |-> TRUE, action |-> EmptyCircleAction(prev), path |-> <<>>]
    ELSE [push |-> TRUE, action |-> SegmentAction(prev, shape), path |-> <<>>]

\* The updater comparing the raw ends instead of the snapped ones.
EndResultRawCoincidence(prev, shape) ==
    IF Len(prev) < 2
    THEN [push |-> FALSE, path |-> prev]
    ELSE IF IsPointGesture(prev)
    THEN [push |-> TRUE, action |-> EmptyCircleAction(prev), path |-> <<>>]
    ELSE IF prev[1] = prev[2]
    THEN [push |-> FALSE, path |-> <<SnapPixel(prev[1])>>]
    ELSE [push |-> TRUE, action |-> SegmentAction(prev, shape), path |-> <<>>]

\* What the updater does with prev: whether it pushes, what it pushes and
\* the path it returns.
EndResult(prev, shape) ==
    IF Len(prev) < 2
    THEN [push |-> FALSE, path |-> prev]
    ELSE IF IsPointGesture(prev)
    THEN [push |-> TRUE, action |-> EmptyCircleAction(prev), path |-> <<>>]
    ELSE IF SnapPixel(prev[1]) = SnapPixel(prev[2])
    THEN [push |-> FALSE, path |-> <<SnapPixel(prev[1])>>]
    ELSE [push |-> TRUE, action |-> SegmentAction(prev, shape), path |-> <<>>]

----------------------------------------------------------------------------
(* getPathD, parabola branch (lines 64-71).  The path is the list of its   *)
(* commands; cLeft and cRight are halves, carried doubled as cx2.          *)

\* The parabola reflecting the arm end through the vertex point.
getPathDParabolaPointMirror(startPt, endPt) ==
    LET xv == startPt.x
        yv == startPt.y
        x2 == endPt.x
        y2 == endPt.y
    IN  << [cmd |-> "M", x |-> 2 * xv - x2, y |-> 2 * yv - y2],
           [cmd |-> "Q", cx2 |-> 3 * xv - x2, cy |-> yv, x |-> xv, y |-> yv],
           [cmd |-> "Q", cx2 |-> xv + x2, cy |-> yv, x |-> x2, y |-> y2] >>

\* `M ${xMirror} ${y2} Q ${cLeft} ${yv} ${xv} ${yv} Q ${cRight} ${yv} ${x2} ${y2}`
getPathDParabola(startPt, endPt) ==
    LET xv == startPt.x
        yv == startPt.y
        x2 == endPt.x
        y2 == endPt.y
        xMirror == 2 * xv - x2
    IN  << [cmd |-> "M", x |-> xMirror, y |-> y2],
           [cmd |-> "Q", cx2 |-> 3 * xv - x2, cy |-> yv, x |-> xv, y |-> yv],
           [cmd |-> "Q", cx2 |-> xv + x2, cy |-> yv, x |-> x2, y |-> y2] >>

----------------------------------------------------------------------------
(* State.                                                                  *)

VARIABLES
    path,           \* useState([])      the drag in progress: 0, 1 or 2 pixel points
    history,        \* useState([])      the sequence of actions
    historyIndex,   \* useState(0)       the cursor
    isDrawing,      \* useState(false)
    selectedShape,  \* useState('line')
    last            \* observation only: the last handler that ran, the cursor
                    \* and history length it found; for moveDrawing during a
                    \* drag, the pointer position; for endDrawing, the path it
                    \* found and the handler that ran before it.  Under
                    \* PureSpec: the function applied, its input, its result.

vars == <<path, history, historyIndex, isDrawing, selectedShape, last>>

\* Derived on every render (lines 117-119, 279-281).
segments == reduceHistoryToState(HistorySlice(history, historyIndex)).segments
emptyCirclePoints == reduceHistoryToState(HistorySlice(history, historyIndex)).emptyCirclePoints
canUndo == historyIndex > 0
canRedo == historyIndex < Len(history)
canReset == Len(history) > 0

Observe(op, p) == [op |-> op, idx |-> historyIndex, len |-> Len(history), path |-> p]

ObserveEnd(op, p) ==
    [op |-> op, idx |-> historyIndex, len |-> Len(history), path |-> p, after |-> last.op]

Init ==
    /\ path = <<>>
    /\ history = <<>>
    /\ historyIndex = 0
    /\ isDrawing = FALSE
    /\ selectedShape = "line"
    /\ last = [op |-> "init", idx |-> 0, len |-> 0, path |-> <<>>]

----------------------------------------------------------------------------
(* Handlers.                                                               *)

\* startDrawing (lines 146-155): mouse down / touch start.
StartDrawing ==
    \E c \in StartPixels :
        /\ isDrawing' = TRUE
        /\ path' = <<clientToSvg(c)>>
        /\ last' = Observe("start", <<>>)
        /\ UNCHANGED <<history, historyIndex, selectedShape>>

\* moveDrawing without the early return on !isDrawing.
MoveDrawingNoGuard ==
    \E c \in MovePixels :
        LET pt == clientToSvg(c) IN
        /\ path' = IF Len(path) = 0 THEN path
                   ELSE IF path[Len(path)] = pt THEN path
                   ELSE <<path[1], pt>>
        /\ last' = Observe("move", IF isDrawing THEN <<pt>> ELSE <<>>)
        /\ UNCHANGED <<history, historyIndex, isDrawing, selectedShape>>

\* moveDrawing keeping the point it replaces when that is the anchor only:
\* the second point is the first position the pointer moved to.
MoveDrawingKeepsFirstMove ==
    \E c \in MovePixels :
        LET pt == clientToSvg(c) IN
        /\ path' = IF ~isDrawing THEN path
                   ELSE IF Len(path) = 0 THEN path
                   ELSE IF path[Len(path)] = pt THEN path
                   ELSE IF Len(path) = 1 THEN <<path[1], pt>>
                   ELSE path
        /\ last' = Observe("move", IF isDrawing THEN <<pt>> ELSE <<>>)
        /\ UNCHANGED <<history, historyIndex, isDrawing, selectedShape>>

\* moveDrawing (lines 157-172): mouse move / touch move.
MoveDrawing ==
    \E c \in MovePixels :
        LET pt == clientToSvg(c) IN
        /\ path' = IF ~isDrawing THEN path
                   ELSE IF Len(path) = 0 THEN path
                   ELSE IF path[Len(path)] = pt THEN path
                   ELSE <<path[1], pt>>
        /\ last' = Observe("move", IF isDrawing THEN <<pt>> ELSE <<>>)
        /\ UNCHANGED <<history, historyIndex, isDrawing, selectedShape>>

\* endDrawing (lines 174-215): mouse up / mouse leave / touch end / touch cancel.
EndDrawing ==
    LET r == EndResult(path, selectedShape) IN
    /\ r.push => historyIndex < MaxHistory
    /\ isDrawing' = FALSE
    /\ path' = r.path
    /\ IF r.push
       THEN /\ history' = pushHistory(history, historyIndex, r.action).history
            /\ historyIndex' = pushHistory(history, historyIndex, r.action).historyIndex
       ELSE UNCHANGED <<history, historyIndex>>
    /\ last' = ObserveEnd(IF r.push THEN "commit" ELSE "drop", path)
    /\ UNCHANGED selectedShape

\* The three shape buttons (lines 339, 362, 385): toggle the selection.
ToggleShape ==
    \E s \in Shapes :
        /\ selectedShape' = IF selectedShape = s THEN NoShape ELSE s
        /\ last' = Observe("shape", <<>>)
        /\ UNCHANGED <<path, history, historyIndex, isDrawing>>

\* Undo button (lines 417-424): disabled unless canUndo, so the onClick of
\* line 419 runs only with historyIndex > 0.
Undo ==
    /\ canUndo
    /\ historyIndex' = UndoIndex(historyIndex)
    /\ last' = Observe("undo", <<>>)
    /\ UNCHANGED <<path, history, isDrawing, selectedShape>>

\* Redo button (lines 425-432): disabled unless canRedo, so the onClick of
\* line 427 runs only with historyIndex < history.length.
Redo ==
    /\ canRedo
    /\ historyIndex' = RedoIndex(Len(history), historyIndex)
    /\ last' = Observe("redo", <<>>)
    /\ UNCHANGED <<path, history, isDrawing, selectedShape>>

\* Reset without setHistoryIndex(0).
ResetKeepsCursor ==
    /\ canReset
    /\ history' = <<>>
    /\ last' = Observe("reset", <<>>)
    /\ UNCHANGED <<historyIndex, path, isDrawing, selectedShape>>

\* Reset button (lines 433-448): disabled unless canReset, so the onClick of
\* lines 435-438 runs only with a non-empty history.
Reset ==
    /\ canReset
    /\ history' = <<>>
    /\ historyIndex' = 0
    /\ last' = Observe("reset", <<>>)
    /\ UNCHANGED <<path, isDrawing, selectedShape>>

Next ==
    \/ StartDrawing
    \/ MoveDrawing
    \/ EndDrawing
    \/ ToggleShape
    \/ Undo
    \/ Redo
    \/ Reset

Spec == Init /\ [][Next]_vars

----------------------------------------------------------------------------
(* The pure functions applied to inputs drawn from bounded sets.  The      *)
(* component state stays as constructed; last holds the function, its      *)
(* input and, once applied, its result.                                    *)

PureInputs ==
    {[op |-> "roundToTick", in |-> <<n>>, out |-> <<>>] : n \in -MaxNumer..MaxNumer}
    \cup {[op |-> "roundTrip", in |-> <<v, w>>, out |-> <<>>] : v \in MIN..MAX, w \in MIN..MAX}
    \cup {[op |-> "parabola", in |-> <<xv, yv, x2, y2>>, out |-> <<>>] :
             xv \in -MaxCoord..MaxCoord, yv \in -MaxCoord..MaxCoord,
             x2 \in -MaxCoord..MaxCoord, y2 \in -MaxCoord..MaxCoord}

PureInit ==
    /\ path = <<>>
    /\ history = <<>>
    /\ historyIndex = 0
    /\ isDrawing = FALSE
    /\ selectedShape = "line"
    /\ last \in PureInputs

\* roundToTick(v), then roundToTick of the result.
ApplyRoundToTick ==
    /\ last.op = "roundToTick"
    /\ last.out = <<>>
    /\ last' = [last EXCEPT !.out = << roundToTick(last.in[1]),
                                       roundToTick(roundToTick(last.in[1]) * Den) >>]
    /\ UNCHANGED <<path, history, historyIndex, isDrawing, selectedShape>>

\* valueToX / valueToY of two grid values v and w, and xToValue / yToValue
\* of the pixels of v.
ApplyRoundTrip ==
    /\ last.op = "roundTrip"
    /\ last.out = <<>>
    /\ last' = [last EXCEPT !.out = << valueToX(last.in[1]),
                                       xToValue(2 * valueToX(last.in[1])),
                                       valueToY(last.in[1]),
                                       yToValue(2 * valueToY(last.in[1])),
                                       valueToX(last.in[2]),
                                       valueToY(last.in[2]) >>]
    /\ UNCHANGED <<path, history, historyIndex, isDrawing, selectedShape>>

\* getPathD('parabola', vertex, arm end).
ApplyParabola ==
    /\ last.op = "parabola"
    /\ last.out = <<>>
    /\ last' = [last EXCEPT !.out =
                   getPathDParabola([x |-> last.in[1], y |-> last.in[2]],
                                    [x |-> last.in[3], y |-> last.in[4]])]
    /\ UNCHANGED <<path, history, historyIndex, isDrawing, selectedShape>>

PureNext ==
    \/ ApplyRoundToTick
    \/ ApplyRoundTrip
    \/ ApplyParabola

PureSpec == PureInit /\ [][PureNext]_vars

----------------------------------------------------------------------------
(* Vocabulary of the properties.                                           *)

\* The step is a run of endDrawing.
EndStep == last'.op \in {"commit", "drop"}

\* history.slice(0, cursor) of the state before the step.
Prefix == SubSeq(history, 1, historyIndex)

\* The step appends exactly one action to the prefix and advances the cursor.
CommitsOne == /\ Len(history') = historyIndex + 1
              /\ SubSeq(history', 1, historyIndex) = Prefix
              /\ historyIndex' = historyIndex + 1

\* The step leaves the history and the cursor alone.
CommitsNothing == history' = history /\ historyIndex' = historyIndex

\* The visible state (segments and markers) of a history and a cursor.
Visible(h, i) == reduceHistoryToState(HistorySlice(h, i))

----------------------------------------------------------------------------
(* C1: after any sequence of commits, Undo, Redo and Reset from the empty  *)
(* history, 0 <= historyIndex <= length(history).                          *)
C1_CursorInRange == historyIndex >= 0 /\ historyIndex <= Len(history)

\* Redo was pressed one step before the end of a history of two actions
\* and brought the cursor to the end.
C1_Witness == /\ last.op = "redo"
              /\ last.len = 2
              /\ last.idx = 1
              /\ historyIndex = Len(history)

(* C2: a commit at (history, historyIndex) leaves history[0:historyIndex]  *)
(* followed by the committed action, with the cursor at the new end: every *)
(* action at index >= historyIndex is gone from the history, so no Undo or *)
(* Redo can show it again.                                                 *)
C2_CommitTruncates ==
    [][last'.op = "commit" =>
         /\ CommitsOne
         /\ history'[Len(history')] = EndResult(path, selectedShape).action
         /\ historyIndex' = Len(history')
         /\ Visible(history', historyIndex') =
                ReduceStep(Visible(history, historyIndex), history'[Len(history')])]_vars

\* commit A, commit B, Undo, commit C: the last commit found two actions
\* and the cursor at 1, and left two actions.
C2_Witness == /\ last.op = "commit"
              /\ last.len = 2
              /\ last.idx = 1
              /\ Len(history) = 2
              /\ historyIndex = 2

(* C3: Undo sets the cursor to max(0, cursor - 1), Redo to min(length,      *)
(* cursor + 1); with the cursor at 0 no step is an Undo and with the cursor *)
(* at the end no step is a Redo, so pressing them there changes nothing;    *)
(* neither changes the action sequence.                                     *)
C3_UndoRedoFrame ==
    [][/\ last'.op = "undo" =>
            /\ historyIndex' = Max2(0, historyIndex - 1)
            /\ historyIndex > 0
            /\ history' = history
       /\ last'.op = "redo" =>
            /\ historyIndex' = Min2(Len(history), historyIndex + 1)
            /\ historyIndex < Len(history)
            /\ history' = history]_vars

\* Undo was pressed with the cursor at 2 of 2 and left it at 1.
C3_Witness == /\ last.op = "undo"
              /\ last.idx = 2
              /\ last.len = 2
              /\ historyIndex = 1
              /\ Len(history) = 2

(* C4: with historyIndex > 0, Undo then Redo gives back the same cursor    *)
(* and the same segments and markers in the same order, and canRedo holds  *)
(* in between.  The first conjunct is the Undo step, the second the Redo   *)
(* step that follows it: last holds the cursor the Undo found.             *)
C4_UndoThenRedo ==
    [][/\ (last'.op = "undo" /\ historyIndex > 0) =>
            /\ canRedo'
            /\ history' = history
       /\ (last.op = "undo" /\ last.idx > 0 /\ last'.op = "redo") =>
            /\ historyIndex' = last.idx
            /\ Visible(history', historyIndex') = Visible(history, last.idx)]_vars

\* One line segment committed to the empty history, undone, and redone:
\* Redo found the cursor at 0 of 1 and shows the segment again.
C4_Witness == /\ last.op = "redo"
              /\ last.idx = 0
              /\ last.len = 1
              /\ historyIndex = 1
              /\ Len(segments) = 1
              /\ segments[1].shape = "line"

(* C5: Reset empties the history and puts the cursor at 0; from the empty  *)
(* history every handler but a commit leaves it empty with the cursor at   *)
(* 0, and canUndo, canRedo and canReset are false.                         *)
C5_ResetClears ==
    [][/\ last'.op = "reset" =>
            /\ history' = <<>>
            /\ historyIndex' = 0
            /\ ~canUndo' /\ ~canRedo' /\ ~canReset'
       /\ (last.op = "reset" \/ (history = <<>> /\ historyIndex = 0)) /\ last'.op # "commit" =>
            /\ history' = <<>>
            /\ historyIndex' = 0
            /\ ~canUndo' /\ ~canRedo' /\ ~canReset']_vars

\* Two commits, one Undo, then Reset.
C5_Witness == /\ last.op = "reset"
              /\ last.len = 2
              /\ last.idx = 1
              /\ history = <<>>
              /\ historyIndex = 0

(* C6: the marker list has no two markers with the same (x, y); it is the  *)
(* list of the first occurrences, in order, of the EmptyCircle points      *)
(* among the first historyIndex actions.                                   *)
C6_FirstMarkerAt(k) ==
    /\ history[k].type = ACTION_EMPTY_CIRCLE
    /\ \A m \in 1..(k - 1) :
          ~(history[m].type = ACTION_EMPTY_CIRCLE /\ history[m].point = history[k].point)

C6_MarkersDistinct ==
    LET firsts == {k \in 1..Min2(historyIndex, Len(history)) : C6_FirstMarkerAt(k)}
        shown == emptyCirclePoints
    IN  /\ \A i, j \in 1..Len(shown) :
              i # j => PointKey(shown[i]) # PointKey(shown[j])
        /\ Len(shown) = Cardinality(firsts)
        /\ \A k \in firsts :
              shown[Cardinality({m \in firsts : m <= k})] = history[k].point

\* Three EmptyCircle actions, the third at the coordinate of the first:
\* two markers, the first coordinate first.
C6_Witness == /\ Len(history) = 3
              /\ historyIndex = 3
              /\ \A k \in 1..3 : history[k].type = ACTION_EMPTY_CIRCLE
              /\ history[1].point = history[3].point
              /\ history[1].point # history[2].point
              /\ emptyCirclePoints = <<history[1].point, history[2].point>>

----------------------------------------------------------------------------
(* Gestures, stated on pixels and grid points.                             *)

SpanX(p) == Abs(p[2].x - p[1].x)
SpanY(p) == Abs(p[2].y - p[1].y)

\* hypot(spanX, spanY) < 18.9 px and spanY >= 12 px: 18.9^2 = 357.21.
ShortAndVertical(p) ==
    /\ 100 * (SpanX(p) * SpanX(p) + SpanY(p) * SpanY(p)) < 35721
    /\ SpanY(p) >= 12

\* The integer in [-10, 10] nearest to the value n/Den after clamping,
\* a tie going up.
NearestTick(n) ==
    LET c == IF n < -10 * Den THEN -10 * Den ELSE IF n > 10 * Den THEN 10 * Den ELSE n
    IN  CHOOSE v \in -10..10 : Den * (2 * v - 1) <= 2 * c /\ 2 * c < Den * (2 * v + 1)

\* The grid point a pixel point snaps to.
GridPoint(pt) == [x |-> NearestTick(2 * pt.x - WIDTH), y |-> NearestTick(HEIGHT - 2 * pt.y)]

\* The grid point the midpoint of a two-point path snaps to.
MidGridPoint(p) == [x |-> NearestTick(p[1].x + p[2].x - WIDTH),
                    y |-> NearestTick(HEIGHT - (p[1].y + p[2].y))]

\* The action the step appended.
Committed == history'[Len(history')]

(* C7 as stated: a drag with spanX = 5 and spanY = 20 commits exactly one  *)
(* EmptyCircle action and no Segment when it ends.                         *)
C7_Span5x20CommitsMarker ==
    [][(EndStep /\ Len(path) = 2 /\ SpanX(path) = 5 /\ SpanY(path) = 20) =>
         /\ CommitsOne
         /\ Committed.type = ACTION_EMPTY_CIRCLE]_vars

(* C7 amended: a drag with spanX = 5 and spanY = 20 has length             *)
(* hypot(5, 20) ~ 20.6 px, not below POINT_MAX_SPAN = 18.9 px, so it       *)
(* commits no EmptyCircle: it takes the Segment branch, committing exactly *)
(* one Segment when its ends snap to different grid points and nothing     *)
(* when they snap to the same one.                                         *)
C7_Span5x20IsSegmentBranch ==
    [][(EndStep /\ Len(path) = 2 /\ SpanX(path) = 5 /\ SpanY(path) = 20) =>
         IF GridPoint(path[1]) = GridPoint(path[2])
         THEN CommitsNothing
         ELSE /\ CommitsOne
              /\ Committed.type = ACTION_SEGMENT]_vars

\* A drag of span (5, 20) ended and a Segment is the newest action.
C7_Witness == /\ last.op = "commit"
              /\ Len(last.path) = 2
              /\ SpanX(last.path) = 5
              /\ SpanY(last.path) = 20
              /\ Len(history) = last.idx + 1
              /\ history[Len(history)].type = ACTION_SEGMENT

(* C8: at the end of a drag with two recorded points an EmptyCircle is     *)
(* committed iff hypot(spanX, spanY) < 18.9 px and spanY >= 12 px, at the  *)
(* snapped midpoint; otherwise the Segment branch runs (one Segment or     *)
(* nothing).  The selected tool has no part in the decision.               *)
C8_MarkerIffShortVertical ==
    [][(EndStep /\ Len(path) = 2) =>
         /\ IF ShortAndVertical(path)
            THEN /\ CommitsOne
                 /\ Committed = [type |-> ACTION_EMPTY_CIRCLE, point |-> MidGridPoint(path)]
            ELSE \/ CommitsNothing
                 \/ CommitsOne /\ Committed.type = ACTION_SEGMENT
         /\ \A s \in Shapes \cup {NoShape} :
               /\ EndResult(path, s).push = (history' # history \/ historyIndex' # historyIndex)
               /\ ShortAndVertical(path) => EndResult(path, s).action = Committed]_vars

\* A short vertical drag ended with the parabola tool selected and an
\* EmptyCircle at its snapped midpoint is the newest action.
C8_Witness == /\ last.op = "commit"
              /\ Len(last.path) = 2
              /\ ShortAndVertical(last.path)
              /\ selectedShape = "parabola"
              /\ Len(history) = last.idx + 1
              /\ history[Len(history)] =
                     [type |-> ACTION_EMPTY_CIRCLE, point |-> MidGridPoint(last.path)]

(* C9: a drag whose pointer-down and release points are the same pixel     *)
(* (never moved, or moved away and back) commits nothing: history and      *)
(* cursor are unchanged.                                                   *)
C9_ZeroSpanCommitsNothing ==
    [][(EndStep /\ (Len(path) = 1 \/ (Len(path) = 2 /\ path[1] = path[2]))) =>
         CommitsNothing]_vars

\* A drag that moved away and came back to its pointer-down pixel ended.
C9_Witness == /\ last.op = "drop"
              /\ Len(last.path) = 2
              /\ last.path[1] = last.path[2]
              /\ historyIndex = last.idx
              /\ Len(history) = last.len

(* C10 as stated: whenever both ends of a drag snap to the same grid       *)
(* point, ending it commits nothing.                                       *)
C10_SameGridPointDropped ==
    [][(EndStep /\ Len(path) = 2 /\ GridPoint(path[1]) = GridPoint(path[2])) =>
         CommitsNothing]_vars

(* C10 amended: whenever both ends of a drag snap to the same grid point   *)
(* and the drag is not a point gesture (its length is at least             *)
(* POINT_MAX_SPAN or its vertical span is below POINT_MIN_VERTICAL),       *)
(* ending it commits nothing.                                              *)
C10_SameGridPointSegmentDropped ==
    [][(/\ EndStep
        /\ Len(path) = 2
        /\ GridPoint(path[1]) = GridPoint(path[2])
        /\ ~ShortAndVertical(path)) =>
         CommitsNothing]_vars

\* A drag between two different pixels of one grid cell ended in the
\* Segment branch and was dropped.
C10_Witness == /\ last.op = "drop"
               /\ Len(last.path) = 2
               /\ last.path[1] # last.path[2]
               /\ GridPoint(last.path[1]) = GridPoint(last.path[2])
               /\ ~ShortAndVertical(last.path)
               /\ historyIndex = last.idx
               /\ Len(history) = last.len

----------------------------------------------------------------------------
(* C11: pointer-down and pointer-move never change the history or the      *)
(* cursor; a commit needs a drag in progress and ends it, and without a    *)
(* pointer-down no drag is in progress again: so between two pointer-downs *)
(* at most one action is committed, however many terminal events occur.    *)
C11_OneCommitPerDrag ==
    [][/\ last'.op \in {"start", "move"} => CommitsNothing
       /\ last'.op = "commit" => isDrawing /\ ~isDrawing' /\ Len(path') < 2
       /\ last'.op = "drop" => ~isDrawing' /\ Len(path') < 2
       /\ (~isDrawing /\ last'.op # "start") =>
             ~isDrawing' /\ Len(path') < 2 /\ last'.op # "commit"]_vars

\* A terminal event found the empty path a commit had left (no pointer-down
\* since: a pointer-down makes the path non-empty) and committed nothing.
C11_Witness == /\ last.op = "drop"
               /\ last.path = <<>>
               /\ last.len > 0
               /\ last.idx = last.len
               /\ ~isDrawing
               /\ historyIndex = last.idx
               /\ Len(history) = last.len

(* C12 as stated: every point stored in an action of the history, the      *)
(* point of an EmptyCircle and both ends of a Segment, has integer         *)
(* coordinates in [-10, 10].                                               *)
C12_IsGridValue(p) == p.x \in -10..10 /\ p.y \in -10..10

C12_StoredPointsAreGridValues ==
    \A k \in 1..Len(history) :
        IF history[k].type = ACTION_EMPTY_CIRCLE
        THEN C12_IsGridValue(history[k].point)
        ELSE /\ C12_IsGridValue(history[k].data.points[1])
             /\ C12_IsGridValue(history[k].data.points[2])

(* C12 amended: the point of every EmptyCircle in the history has integer  *)
(* coordinates in [-10, 10]; both ends of every Segment are stored as the  *)
(* pixel coordinates of grid points, (250 + 21 i, 250 - 21 j) with i, j    *)
(* integers in [-10, 10].                                                  *)
C12_IsGridPixel(p) ==
    /\ (p.x - 250) % 21 = 0 /\ (p.x - 250) \div 21 \in -10..10
    /\ (250 - p.y) % 21 = 0 /\ (250 - p.y) \div 21 \in -10..10

C12_StoredPointsAreSnapped ==
    \A k \in 1..Len(history) :
        IF history[k].type = ACTION_EMPTY_CIRCLE
        THEN C12_IsGridValue(history[k].point)
        ELSE /\ C12_IsGridPixel(history[k].data.points[1])
             /\ C12_IsGridPixel(history[k].data.points[2])

\* The history holds a Segment and an EmptyCircle.
C12_Witness == /\ Len(history) >= 2
               /\ history[1].type = ACTION_SEGMENT
               /\ history[2].type = ACTION_EMPTY_CIRCLE

(* C18: the visible segment list is the list of the Segment actions among  *)
(* the first historyIndex actions, in commit order, nothing dropped: the   *)
(* same segment committed twice is listed twice.                           *)
C18_SegmentsAreAllSegments ==
    LET segs == {k \in 1..Min2(historyIndex, Len(history)) :
                    history[k].type = ACTION_SEGMENT}
        shown == segments
    IN  /\ Len(shown) = Cardinality(segs)
        /\ \A k \in segs :
              /\ shown[Cardinality({m \in segs : m <= k})].shape = history[k].data.shape
              /\ shown[Cardinality({m \in segs : m <= k})].points = history[k].data.points

\* The same segment committed twice and both visible.
C18_Witness == /\ Len(history) >= 2
               /\ historyIndex >= 2
               /\ history[1].type = ACTION_SEGMENT
               /\ history[2] = history[1]
               /\ Len(segments) >= 2
               /\ segments[1] = segments[2]

(* C19: no Segment action in the history has two coincident ends.          *)
C19_NoDegenerateSegment ==
    \A k \in 1..Len(history) :
        history[k].type = ACTION_SEGMENT =>
            history[k].data.points[1] # history[k].data.points[2]

\* With a Segment in the history, a drag in the Segment branch between two
\* pixels of one grid cell ended and left only its snapped start as path.
C19_Witness == /\ last.op = "drop"
               /\ Len(last.path) = 2
               /\ last.path[1] # last.path[2]
               /\ path = <<SnapPixel(last.path[1])>>
               /\ path = <<SnapPixel(last.path[2])>>
               /\ \E k \in 1..Len(history) : history[k].type = ACTION_SEGMENT

(* C20 as stated: a marker gesture at a coordinate that already has a      *)
(* visible marker commits an action: history length and cursor each grow   *)
(* by one, and the marker list is unchanged.                               *)
C20_MarkerRepeated ==
    /\ last'.op = "commit"
    /\ Committed.type = ACTION_EMPTY_CIRCLE
    /\ \E k \in 1..Len(emptyCirclePoints) : emptyCirclePoints[k] = Committed.point

C20_RepeatGrowsLength ==
    [][C20_MarkerRepeated =>
         /\ Len(history') = Len(history) + 1
         /\ historyIndex' = historyIndex + 1
         /\ emptyCirclePoints' = emptyCirclePoints]_vars

(* C20 amended: a marker gesture at a coordinate that already has a        *)
(* visible marker commits an action: the cursor grows by one and the       *)
(* history becomes history[0:cursor] plus the action, so its length is     *)
(* cursor + 1 (one more than before only when there was no redo tail);     *)
(* the visible segments and markers are unchanged, and the next Undo       *)
(* leaves them unchanged too.                                              *)
C20_RepeatCommitsInvisibly ==
    [][C20_MarkerRepeated =>
         /\ CommitsOne
         /\ Len(history') = historyIndex'
         /\ emptyCirclePoints' = emptyCirclePoints
         /\ segments' = segments
         /\ Visible(history', UndoIndex(historyIndex')) = Visible(history', historyIndex')]_vars

\* The newest action is an EmptyCircle at the coordinate of an earlier one,
\* committed over a redo tail.
C20_Witness == /\ last.op = "commit"
               /\ last.idx < last.len
               /\ Len(history) = last.idx + 1
               /\ historyIndex = Len(history)
               /\ history[Len(history)].type = ACTION_EMPTY_CIRCLE
               /\ \E k \in 1..(Len(history) - 1) : history[k] = history[Len(history)]

----------------------------------------------------------------------------
(* C13: a committed Segment carries the tool selected when the drag ends,  *)
(* whatever was selected at pointer-down; with no tool selected it carries *)
(* line.                                                                   *)
C13_ShapeAtRelease ==
    [][(last'.op = "commit" /\ Committed.type = ACTION_SEGMENT) =>
         /\ Committed.data.shape \in Shapes
         /\ selectedShape \in Shapes => Committed.data.shape = selectedShape
         /\ selectedShape = NoShape => Committed.data.shape = "line"]_vars

\* The parabola button was pressed during the drag, as the last handler
\* before the release, and the newest action is a parabola Segment.
C13_Witness == /\ last.op = "commit"
               /\ last.after = "shape"
               /\ Len(last.path) = 2
               /\ selectedShape = "parabola"
               /\ Len(history) = last.idx + 1
               /\ history[Len(history)].type = ACTION_SEGMENT
               /\ history[Len(history)].data.shape = "parabola"

(* C14 (PureSpec): roundToTick(roundToTick(v)) = roundToTick(v), and        *)
(* roundToTick(v) is the integer of [-10, 10] nearest to v clamped.        *)
C14_SnapIdempotent ==
    (last.op = "roundToTick" /\ last.out # <<>>) =>
        /\ last.out[2] = last.out[1]
        /\ last.out[1] \in -10..10
        /\ last.out[1] = NearestTick(last.in[1])

\* A value above 10 snapped to 10, and 10 snapped to 10 again.
C14_Witness == /\ last.op = "roundToTick"
               /\ last.in[1] > 10 * Den
               /\ last.out = <<10, 10>>

(* C15 (PureSpec): for every grid value v, xToValue(valueToX(v)) = v and   *)
(* yToValue(valueToY(v)) = v; a larger value has a larger pixel x and a    *)
(* smaller pixel y.                                                        *)
C15_RoundTrip ==
    (last.op = "roundTrip" /\ last.out # <<>>) =>
        /\ last.out[2] = last.in[1] * Den
        /\ last.out[4] = last.in[1] * Den
        /\ last.in[1] < last.in[2] =>
              /\ last.out[1] < last.out[5]
              /\ last.out[3] > last.out[6]

\* -10 maps to pixel (40, 460) and back to -10; 10 maps to x 460, y 40.
C15_Witness == /\ last.op = "roundTrip"
               /\ last.in = <<-10, 10>>
               /\ last.out = <<40, -10 * Den, 460, -10 * Den, 460, 40>>

(* C16 (PureSpec): the parabola path starts at the reflection of the arm   *)
(* end p1 across the vertical line through the vertex, (2*xv - x2, y2),    *)
(* passes through the vertex and ends at p1.                               *)
C16_ParabolaMirror ==
    (last.op = "parabola" /\ last.out # <<>>) =>
        /\ Len(last.out) = 3
        /\ last.out[1].cmd = "M"
        /\ last.out[1].x - last.in[1] = last.in[1] - last.in[3]
        /\ last.out[1].y = last.in[4]
        /\ <<last.out[2].x, last.out[2].y>> = <<last.in[1], last.in[2]>>
        /\ <<last.out[3].x, last.out[3].y>> = <<last.in[3], last.in[4]>>

\* Vertex (0,0), arm end (4,2): the path starts at (-4,2).
C16_Witness == /\ last.op = "parabola"
               /\ last.in = <<0, 0, 4, 2>>
               /\ last.out # <<>>
               /\ <<last.out[1].x, last.out[1].y>> = <<-4, 2>>

(* C17: what endDrawing commits is decided by the pointer-down point, the  *)
(* last pointer position and the selected tool.  Pointer-down leaves the   *)
(* one point; every move during a drag leaves the pointer-down point first *)
(* and the pointer position last, whatever was between; no other handler   *)
(* touches the path; endDrawing commits what these two ends and the tool   *)
(* give.                                                                   *)
C17_OnlyEndsMatter ==
    [][/\ last'.op = "start" => Len(path') = 1
       /\ (last'.op = "move" /\ isDrawing) =>
             /\ Len(path') \in {1, 2}
             /\ path'[1] = path[1]
             /\ path'[Len(path')] = last'.path[1]
       /\ (last'.op = "move" /\ ~isDrawing) => path' = path
       /\ last'.op \in {"shape", "undo", "redo", "reset"} => path' = path
       /\ (EndStep /\ Len(path) = 0) => CommitsNothing
       /\ (EndStep /\ Len(path) > 0) =>
             LET r == EndResult(<<path[1], path[Len(path)]>>, selectedShape) IN
             IF r.push
             THEN CommitsOne /\ Committed = r.action
             ELSE CommitsNothing]_vars

\* The pointer left the pointer-down pixel and is back on it: the path is
\* that pixel twice.
C17_Witness == /\ isDrawing
               /\ last.op = "move"
               /\ Len(path) = 2
               /\ path[1] = path[2]
               /\ last.path = <<path[2]>>

====
